---- MODULE Spec2Model ----
(***************************************************************************)
(* A model of cargo's package metadata core:                               *)
(*   - Summary (src/cargo/core/summary.rs): validation at construction,    *)
(*     override_id, map_dependencies, equality;                            *)
(*   - ManifestCache (src/cargo/util/toml/manifest_cache.rs);              *)
(*   - PathSource (src/cargo/sources/path.rs): update, query, get,         *)
(*     download, list_files, fingerprint, get_root_package, read_packages. *)
(* Each component has its own specification (SpecSummary, SpecCache, Spec) *)
(* over the variables it owns; the other components' variables stay at     *)
(* their initial value.                                                    *)
(***************************************************************************)
EXTENDS Integers, Sequences, FiniteSets, TLC

VARIABLES
    deps,       \* Summary::new argument `dependencies`: Vec<Dependency>
    feats,      \* Summary::new argument `features`: HashMap<String, Feature>
    summary,    \* the CargoResult<Summary> returned by Summary::new
    derived,    \* the last override_id / map_dependencies call and its result
    cmp,        \* the last == comparison of two Summaries and its result
    files,      \* the manifest files on disk: path -> contents
    writes,     \* number of times a manifest file was rewritten
    cache,      \* config.manifest_cache(): HashMap<PathBuf, Rc<ParseOutput>>
    heap,       \* the ParseOutputs allocated by Rc::new, by allocation number
    log,        \* the parse_manifest calls made so far, with what each did
    world,      \* the file system and the git repositories on it
    updated,    \* PathSource.updated
    packages,   \* PathSource.packages
    ret         \* the last PathSource operation called and what it returned;
                \* for a listing also the file system it was called on

sumVars == <<deps, feats, summary, derived, cmp>>

cacheVars == <<files, writes, cache, heap, log>>

pathVars == <<world, updated, packages, ret>>

vars ==
    <<deps, feats, summary, derived, cmp, files, writes, cache, heap, log,
      world, updated, packages, ret>>

----------------------------------------------------------------------------
(* Generic helpers.                                                        *)

Range(s) == {s[i] : i \in 1..Len(s)}

Perms(S) == {p \in [1..Cardinality(S) -> S] : Range(p) = S}

----------------------------------------------------------------------------
(* Summary: inputs.                                                        *)

\* Total number of dependencies, feature dependency tokens and sub-feature
\* names in an input of Summary::new.
MaxSize == 3

\* Strings that are split or compared by prefix are sequences of characters.
DepNames == {<<"a">>, <<"b">>}

FeatureNames == {"f", "g"}

\* Sub-feature names a feature may list: the possible keys and one name that
\* is never a key.
SubFeatureNames == FeatureNames \cup {"h"}

\* Dependency tokens a feature may list: plain names of dependencies that may
\* exist ("a") or never exist ("c"), reexports of both, and a token with two
\* separators.
Tokens ==
    { <<"a">>, <<"c">>,
      <<"a", "/", "x">>, <<"c", "/", "x">>,
      <<"a", "/", "x", "/", "y">> }

Dependencies == [name : DepNames, optional : BOOLEAN, transitive : BOOLEAN]

PackageIds ==
    { [name |-> "foo", version |-> 1, source_id |-> "path"],
      [name |-> "foo", version |-> 2, source_id |-> "path"],
      [name |-> "bar", version |-> 1, source_id |-> "git"] }

EmptyFeature == [dependencies |-> <<>>, features |-> <<>>]

NoValue == [tag |-> "none"]

SumLen(f, S) ==
    LET RECURSIVE Go(_)
        Go(T) == IF T = {} THEN 0
                 ELSE LET x == CHOOSE y \in T : TRUE
                      IN Len(f[x].dependencies) + Len(f[x].features) + Go(T \ {x})
    IN Go(S)

InputSize == Len(deps) + SumLen(feats, DOMAIN feats)

----------------------------------------------------------------------------
(* Summary::new.                                                           *)

\* str.splitn(1, '/') of the Rust this file is written in splits at most
\* once: the first part is the text before the first '/', and a second part
\* exists exactly when the string holds a '/'.
FirstSlash(tok) ==
    IF \E i \in 1..Len(tok) : tok[i] = "/"
    THEN CHOOSE i \in 1..Len(tok) : tok[i] = "/" /\ \A j \in 1..(i - 1) : tok[j] # "/"
    ELSE 0

\* parts.next().unwrap()
SplitBase(tok) ==
    IF FirstSlash(tok) = 0 THEN tok ELSE SubSeq(tok, 1, FirstSlash(tok) - 1)

\* parts.next().is_some()
IsReexport(tok) == FirstSlash(tok) # 0

\* dependencies.iter().find(|d| d.name() == dep): the index of the first
\* dependency of that name, 0 for None.
FindDep(ds, name) ==
    IF \E i \in 1..Len(ds) : ds[i].name = name
    THEN CHOOSE i \in 1..Len(ds) :
            ds[i].name = name /\ \A j \in 1..(i - 1) : ds[j].name # name
    ELSE 0

Err(kind, feature, name) ==
    [tag |-> "Err", kind |-> kind, feature |-> feature, name |-> name]

OkUnit == [tag |-> "Ok"]

\* CheckToken without the exemption of reexports.
CheckTokenNoReexport(ds, feature, tok) ==
    LET i == FindDep(ds, SplitBase(tok))
    IN  IF i = 0 THEN Err("not_a_dependency", feature, SplitBase(tok))
        ELSE IF ds[i].optional THEN OkUnit
        ELSE Err("not_optional", feature, SplitBase(tok))

\* The body of `for dep in desc.dependencies()` for one token.
CheckToken(ds, feature, tok) ==
    LET i == FindDep(ds, SplitBase(tok))
    IN  IF i = 0 THEN Err("not_a_dependency", feature, SplitBase(tok))
        ELSE IF ds[i].optional \/ IsReexport(tok) THEN OkUnit
        ELSE Err("not_optional", feature, SplitBase(tok))

\* The first error of a sequence of checks, OkUnit when there is none.
FirstErr(checks) ==
    IF \E i \in 1..Len(checks) : checks[i].tag = "Err"
    THEN checks[CHOOSE i \in 1..Len(checks) :
                    checks[i].tag = "Err" /\ \A j \in 1..(i - 1) : checks[j].tag # "Err"]
    ELSE OkUnit

\* CheckDevDeps without the check.
CheckDevDepsNone(ds) == OkUnit

\* for dep in &dependencies { if dep.is_optional() && !dep.is_transitive() ... }
CheckDevDeps(ds) ==
    FirstErr([i \in 1..Len(ds) |->
        IF ds[i].optional /\ ~ds[i].transitive
        THEN Err("dev_optional", "", ds[i].name)
        ELSE OkUnit])

\* CheckSubFeatures without the check.
CheckSubFeaturesNone(fs, feature) == OkUnit

\* for subfeat in desc.features() { if !features.contains_key(subfeat) ... }
CheckSubFeatures(fs, feature) ==
    FirstErr([i \in 1..Len(fs[feature].features) |->
        IF fs[feature].features[i] \notin DOMAIN fs
        THEN Err("not_a_feature", feature, fs[feature].features[i])
        ELSE OkUnit])

\* for dep in desc.dependencies() { ... }
CheckFeatureDeps(ds, fs, feature) ==
    FirstErr([i \in 1..Len(fs[feature].dependencies) |->
        CheckToken(ds, feature, fs[feature].dependencies[i])])

\* CheckFeature checking the sub-features before the dependency tokens.
CheckFeatureSubFeaturesFirst(ds, fs, feature) ==
    FirstErr(<<CheckSubFeatures(fs, feature), CheckFeatureDeps(ds, fs, feature)>>)

\* The body of `for (feature, desc) in &features`.
CheckFeature(ds, fs, feature) ==
    FirstErr(<<CheckFeatureDeps(ds, fs, feature), CheckSubFeatures(fs, feature)>>)

\* Summary::new, with `order` the order in which the HashMap yields its keys.
SummaryNew(pkg_id, ds, fs, order) ==
    LET r == FirstErr(<<CheckDevDeps(ds)>>
                      \o [i \in 1..Len(order) |-> CheckFeature(ds, fs, order[i])])
    IN  IF r.tag = "Err" THEN r
        ELSE [tag |-> "Ok",
              val |-> [package_id |-> pkg_id, dependencies |-> ds, features |-> fs]]

----------------------------------------------------------------------------
(* Summary: the caller builds the arguments, then calls Summary::new.      *)

Building == summary = NoValue

PushDependency ==
    /\ Building /\ InputSize < MaxSize
    /\ \E d \in Dependencies : deps' = Append(deps, d)
    /\ UNCHANGED <<feats, summary, derived, cmp, cacheVars, pathVars>>

InsertFeature ==
    /\ Building
    /\ \E f \in FeatureNames \ DOMAIN feats :
          feats' = [g \in DOMAIN feats \cup {f} |->
                        IF g = f THEN EmptyFeature ELSE feats[g]]
    /\ UNCHANGED <<deps, summary, derived, cmp, cacheVars, pathVars>>

PushFeatureDependency ==
    /\ Building /\ InputSize < MaxSize
    /\ \E f \in DOMAIN feats, t \in Tokens :
          feats' = [feats EXCEPT ![f].dependencies = Append(@, t)]
    /\ UNCHANGED <<deps, summary, derived, cmp, cacheVars, pathVars>>

PushSubFeature ==
    /\ Building /\ InputSize < MaxSize
    /\ \E f \in DOMAIN feats, g \in SubFeatureNames :
          feats' = [feats EXCEPT ![f].features = Append(@, g)]
    /\ UNCHANGED <<deps, summary, derived, cmp, cacheVars, pathVars>>

New ==
    /\ Building
    /\ \E id \in PackageIds, order \in Perms(DOMAIN feats) :
          summary' = SummaryNew(id, deps, feats, order)
    /\ UNCHANGED <<deps, feats, derived, cmp, cacheVars, pathVars>>

----------------------------------------------------------------------------
(* Summary: override_id, map_dependencies and ==.                          *)

\* The closures handed to map_dependencies.  An FnMut closure may keep state:
\* `n` is the number of times it has been invoked before.
MapFns == {"make_optional", "make_dev", "first_only"}

Apply(f, d, n) ==
    CASE f = "make_optional" -> [d EXCEPT !.optional = TRUE]
      [] f = "make_dev"      -> [d EXCEPT !.transitive = FALSE]
      [] f = "first_only"    -> IF n = 0 THEN [d EXCEPT !.optional = ~d.optional] ELSE d

\* OverrideId building a fresh Summary that loses the dependencies.
OverrideIdDroppingDeps(s, id) ==
    [package_id |-> id, dependencies |-> <<>>, features |-> s.features]

\* self.package_id = id; self
OverrideId(s, id) == [s EXCEPT !.package_id = id]

\* deps.into_iter().map(f).collect(): `out` is the collected vector, `calls`
\* the arguments f was invoked with, in invocation order.
RECURSIVE MapCollect(_, _, _, _, _)
MapCollect(ds, f, i, out, calls) ==
    IF i > Len(ds) THEN [out |-> out, calls |-> calls]
    ELSE MapCollect(ds, f, i + 1,
                    Append(out, Apply(f, ds[i], Len(calls))),
                    Append(calls, ds[i]))

\* MapCollect invoking f from the last element to the first.
RECURSIVE MapCollectRev(_, _, _, _, _)
MapCollectRev(ds, f, i, out, calls) ==
    IF i < 1 THEN [out |-> out, calls |-> calls]
    ELSE MapCollectRev(ds, f, i - 1,
                       <<Apply(f, ds[i], Len(calls))>> \o out,
                       Append(calls, ds[i]))

MapDependenciesRev(s, f) ==
    LET m == MapCollectRev(s.dependencies, f, Len(s.dependencies), <<>>, <<>>)
    IN  [val |-> [s EXCEPT !.dependencies = m.out], calls |-> m.calls]

\* let deps = mem::replace(&mut self.dependencies, Vec::new());
\* self.dependencies = deps.into_iter().map(f).collect(); self
MapDependencies(s, f) ==
    LET m == MapCollect(s.dependencies, f, 1, <<>>, <<>>)
    IN  [val |-> [s EXCEPT !.dependencies = m.out], calls |-> m.calls]

\* PackageId compares by name, version and source id.
PackageIdEq(a, b) ==
    a.name = b.name /\ a.version = b.version /\ a.source_id = b.source_id

\* SummaryEq as a derived, field-by-field comparison.
SummaryEqDerived(a, b) ==
    /\ PackageIdEq(a.package_id, b.package_id)
    /\ a.dependencies = b.dependencies
    /\ a.features = b.features

\* impl PartialEq for Summary: self.package_id == other.package_id
SummaryEq(a, b) == PackageIdEq(a.package_id, b.package_id)

\* The Summary the transformations consume: the one Summary::new returned.
Current == summary.val

CallOverrideId ==
    /\ summary.tag = "Ok" /\ derived = NoValue
    /\ \E id \in PackageIds :
          derived' = [op |-> "override_id", from |-> Current, id |-> id,
                      val |-> OverrideId(Current, id)]
    /\ UNCHANGED <<deps, feats, summary, cmp, cacheVars, pathVars>>

CallMapDependencies ==
    /\ summary.tag = "Ok" /\ derived = NoValue
    /\ \E f \in MapFns :
          LET m == MapDependencies(Current, f)
          IN  derived' = [op |-> "map_dependencies", from |-> Current, f |-> f,
                          val |-> m.val, calls |-> m.calls]
    /\ UNCHANGED <<deps, feats, summary, cmp, cacheVars, pathVars>>

\* summary.val == derived.val
CallEq ==
    /\ summary.tag = "Ok" /\ derived # NoValue /\ cmp = NoValue
    /\ cmp' = [a |-> summary.val, b |-> derived.val,
               res |-> SummaryEq(summary.val, derived.val)]
    /\ UNCHANGED <<deps, feats, summary, derived, cacheVars, pathVars>>

----------------------------------------------------------------------------
(* ManifestCache.                                                          *)

MaxCalls == 3

MaxWrites == 1

\* Paths are sequences of components.
ManifestFiles ==
    { <<"p", "Cargo.toml">>, <<"p", "alt.toml">>, <<"q", "Cargo.toml">> }

\* What a manifest file may hold: nothing readable, text that does not
\* deserialize, or one of two manifests.
Contents == {"unreadable", "invalid", "m1", "m2"}

\* manifest_file.parent().unwrap()
Parent(path) == SubSeq(path, 1, Len(path) - 1)

\* CacheKey keyed by the file instead of its directory.
CacheKeyFile(file) == file

\* let key = manifest_file.parent().unwrap().to_path_buf();
CacheKey(file) == Parent(file)

\* ManifestError::new(err, manifest_file.into())
ManifestError(kind, file) == [tag |-> "Err", kind |-> kind, path |-> file]

\* paths::read(manifest_file)
PathsRead(fs, file) ==
    IF fs[file] = "unreadable" THEN [tag |-> "Err"] ELSE [tag |-> "Ok", val |-> fs[file]]

\* deserialize(contents, manifest_file, config): the typed manifest and the
\* set of document keys the schema does not know.
Deserialize(contents) ==
    IF contents = "invalid" THEN [tag |-> "Err"]
    ELSE [tag |-> "Ok",
          val |-> [manifest |-> contents,
                   unused |-> IF contents = "m2" THEN {"package.foo"} ELSE {}]]

\* ParseManifest inserting an entry before it knows that the file
\* deserializes.
ParseManifestInsertingFirst(file, c, h, fs) ==
    LET key == CacheKey(file)
        unchanged == [cache |-> c, heap |-> h]
    IN  IF key \in DOMAIN c
        THEN unchanged @@ [ret |-> [tag |-> "Ok", rc |-> c[key]],
                           read |-> FALSE, parsed |-> FALSE]
        ELSE LET contents == PathsRead(fs, file)
             IN  IF contents.tag = "Err"
                 THEN unchanged @@ [ret |-> ManifestError("read", file),
                                    read |-> TRUE, parsed |-> FALSE]
                 ELSE LET output == Deserialize(contents.val)
                          inserted == [cache |-> [k \in DOMAIN c \cup {key} |->
                                                    IF k = key THEN Len(h) + 1 ELSE c[k]],
                                       heap |-> Append(h, IF output.tag = "Err"
                                                          THEN [manifest |-> "", unused |-> {}]
                                                          ELSE output.val)]
                      IN  IF output.tag = "Err"
                          THEN inserted @@ [ret |-> ManifestError("parse", file),
                                            read |-> TRUE, parsed |-> TRUE]
                          ELSE inserted @@ [ret |-> [tag |-> "Ok", rc |-> Len(h) + 1],
                                            read |-> TRUE, parsed |-> TRUE]

\* parse_manifest: the result, the cache and the heap after the call, and
\* whether the file was read and deserialized.
ParseManifest(file, c, h, fs) ==
    LET key == CacheKey(file)
        unchanged == [cache |-> c, heap |-> h]
    IN  IF key \in DOMAIN c
        THEN \* Entry::Occupied(e) => Ok(Rc::clone(e.get()))
             unchanged @@ [ret |-> [tag |-> "Ok", rc |-> c[key]],
                           read |-> FALSE, parsed |-> FALSE]
        ELSE \* Entry::Vacant(v)
             LET contents == PathsRead(fs, file)
             IN  IF contents.tag = "Err"
                 THEN unchanged @@ [ret |-> ManifestError("read", file),
                                    read |-> TRUE, parsed |-> FALSE]
                 ELSE LET output == Deserialize(contents.val)
                      IN  IF output.tag = "Err"
                          THEN unchanged @@ [ret |-> ManifestError("parse", file),
                                             read |-> TRUE, parsed |-> TRUE]
                          ELSE \* Ok(Rc::clone(v.insert(Rc::new(output))))
                               [cache |-> [k \in DOMAIN c \cup {key} |->
                                             IF k = key THEN Len(h) + 1 ELSE c[k]],
                                heap |-> Append(h, output.val),
                                ret |-> [tag |-> "Ok", rc |-> Len(h) + 1],
                                read |-> TRUE, parsed |-> TRUE]

CallParseManifest ==
    /\ Len(log) < MaxCalls
    /\ \E file \in ManifestFiles :
          LET r == ParseManifest(file, cache, heap, files)
          IN  /\ cache' = r.cache
              /\ heap' = r.heap
              /\ log' = Append(log, [file |-> file, ret |-> r.ret,
                                     read |-> r.read, parsed |-> r.parsed])
    /\ UNCHANGED <<files, writes, sumVars, pathVars>>

\* The environment rewrites a manifest file between two calls.
WriteFile ==
    /\ writes < MaxWrites
    /\ \E file \in ManifestFiles :
          \E c \in Contents \ {files[file]} : files' = [files EXCEPT ![file] = c]
    /\ writes' = writes + 1
    /\ UNCHANGED <<cache, heap, log, sumVars, pathVars>>

----------------------------------------------------------------------------
(* PathSource: paths, the file system and the repositories.                *)

Root == <<"p">>

\* Path::is_ancestor_of: a path is an ancestor of itself.
IsAncestorOf(a, b) == Len(a) <= Len(b) /\ SubSeq(b, 1, Len(a)) = a

\* Path::path_relative_from(base).unwrap()
RelativeFrom(path, base) == SubSeq(path, Len(base) + 1, Len(path))

\* Path::filename()
Filename(path) == path[Len(path)]

\* Every path the file systems of the model may hold, in the order readdir
\* lists them.
Universe ==
    << <<"p">>,
       <<"p", ".git">>, <<"p", ".git", "HEAD">>,
       <<"p", "Cargo.lock">>, <<"p", "Cargo.toml">>,
       <<"p", "src">>, <<"p", "src", "main.rs">>,
       <<"p", "sub">>, <<"p", "sub", "Cargo.toml">>, <<"p", "sub", "lib.rs">>,
       <<"p", "target">>, <<"p", "target", "debug">>,
       <<"p", "target", "debug", "foo">>,
       <<"p", "vendor">>, <<"p", "vendor", "v.rs">> >>

BuildDirs == {<<"p", "target">>, <<"p", "target", "debug">>}
BuildFiles == {<<"p", "Cargo.lock">>, <<"p", "target", "debug", "foo">>}
SubDirs == {<<"p", "sub">>}
SubFiles == {<<"p", "sub", "Cargo.toml">>, <<"p", "sub", "lib.rs">>}
VendorDirs == {<<"p", "vendor">>}
VendorFiles == {<<"p", "vendor", "v.rs">>}
GitDirs == {<<"p", ".git">>}
GitFiles == {<<"p", ".git", "HEAD">>}
MainRs == <<"p", "src", "main.rs">>
RootManifest == <<"p", "Cargo.toml">>

\* Path::is_dir(), Path::exists(), fs::stat(): a file of `unstatable` is one
\* whose stat fails (a broken symlink, no permission, removed in between).
IsDir(w, path) == path \in w.dirs
Exists(w, path) == path \in w.dirs \/ (path \in w.files /\ path \notin w.unstatable)
StatOk(w, path) == path \in w.dirs \/ (path \in w.files /\ path \notin w.unstatable)

\* fs::readdir(path): the entries of a directory.
ReadDir(w, path) ==
    SelectSeq(Universe, LAMBDA q :
        Len(q) = Len(path) + 1 /\ Parent(q) = path /\ q \in w.dirs \cup w.files)

\* glob::Pattern::matches_path on a path relative to the package root; `*`
\* also matches separators.
Patterns == {"*", "src/*", "Cargo.*", "target/*"}

Matches(pat, rel) ==
    CASE pat = "*"        -> TRUE
      [] pat = "src/*"    -> Len(rel) >= 2 /\ rel[1] = "src"
      [] pat = "target/*" -> Len(rel) >= 2 /\ rel[1] = "target"
      [] pat = "Cargo.*"  -> rel \in {<<"Cargo.toml">>, <<"Cargo.lock">>}

\* The include and exclude lists a manifest may declare.
PatternLists ==
    { [include |-> <<>>, exclude |-> <<>>],
      [include |-> <<>>, exclude |-> <<"src/*">>],
      [include |-> <<"Cargo.*", "target/*">>, exclude |-> <<"*">>],
      [include |-> <<"src/*">>, exclude |-> <<"src/*">>] }

PathPackageId(dir) ==
    IF dir = Root
    THEN [name |-> "foo", version |-> 1, source_id |-> "path"]
    ELSE [name |-> "bar", version |-> 1, source_id |-> "path"]

\* A Package: its manifest path, its id and the manifest's include/exclude.
MakePackage(dir, pats) ==
    [manifest_path |-> Append(dir, "Cargo.toml"),
     package_id |-> PathPackageId(dir),
     include |-> IF dir = Root THEN pats.include ELSE <<>>,
     exclude |-> IF dir = Root THEN pats.exclude ELSE <<>>]

\* Package::get_root() and get_manifest_path().dir_path()
PkgRoot(pkg) == Parent(pkg.manifest_path)

\* Package == Package compares the package ids.
PackageEq(a, b) == PackageIdEq(a.package_id, b.package_id)

\* The relative paths a repository at Root may list, in index order.
TrackedOrder ==
    << <<"Cargo.lock">>, <<"Cargo.toml">>, <<"src", "main.rs">>,
       <<"sub", "Cargo.toml">>, <<"sub", "lib.rs">>,
       <<"target", "debug", "foo">>, <<"vendor">>, <<"vendor", "v.rs">> >>

\* What `git status` with untracked files lists when nothing is tracked: the
\* top-level files and directories.
UntrackedOrder ==
    << <<"Cargo.lock">>, <<"Cargo.toml">>, <<"src">>, <<"sub">>,
       <<"target">>, <<"vendor">> >>

\* The file system with or without build output (Cargo.lock, target/), a
\* nested package sub/, a directory vendor/ and a repository at the root.
\* vcs: "none", "born", "unborn" or "bare"; vendor: "none", "dir", "locked"
\* (a directory readdir fails on), "submodule" (a repository of its own) or
\* "unopenable" (a registered submodule that does not open); track: what the
\* index and the status list.
MakeWorld(build, sub, vendor, vcs, track, pats, tomlStat, mainStat) ==
    LET fs == {RootManifest, MainRs}
              \cup (IF build THEN BuildFiles ELSE {})
              \cup (IF sub THEN SubFiles ELSE {})
              \cup (IF vendor # "none" THEN VendorFiles ELSE {})
              \cup (IF vcs \in {"born", "unborn"} THEN GitFiles ELSE {})
        ds == {Root, <<"p", "src">>}
              \cup (IF build THEN BuildDirs ELSE {})
              \cup (IF sub THEN SubDirs ELSE {})
              \cup (IF vendor # "none" THEN VendorDirs ELSE {})
              \cup (IF vcs \in {"born", "unborn"} THEN GitDirs ELSE {})
        isSub == vendor \in {"submodule", "unopenable"}
        onDisk(rel) == (Root \o rel) \in fs \cup ds
        index == IF track = "status" THEN <<>>
                 ELSE SelectSeq(TrackedOrder, LAMBDA rel :
                        /\ onDisk(rel)
                        /\ (Root \o rel) \in ds => isSub
                        /\ (isSub /\ Len(rel) > 1) => rel[1] # "vendor")
        statuses == IF track = "index" THEN <<>>
                    ELSE IF track = "both"
                    THEN SelectSeq(index, LAMBDA rel : (Root \o rel) \in fs)
                    ELSE SelectSeq(UntrackedOrder, LAMBDA rel : onDisk(rel))
        rootRepo == [bare |-> vcs = "bare", unborn |-> vcs = "unborn",
                     index |-> index, statuses |-> statuses,
                     submodules |-> IF isSub THEN {<<"vendor">>} ELSE {}]
        vendorRepo == [bare |-> FALSE, unborn |-> FALSE,
                       index |-> << <<"v.rs">> >>, statuses |-> <<>>,
                       submodules |-> {}]
    IN  [files |-> fs,
         dirs |-> ds,
         unreadable |-> IF vendor = "locked" THEN VendorDirs ELSE {},
         unstatable |-> (IF tomlStat < 0 THEN {RootManifest} ELSE {})
                        \cup (IF mainStat < 0 THEN {MainRs} ELSE {}),
         mtime |-> [f \in fs |-> IF f = RootManifest /\ tomlStat >= 0 THEN tomlStat
                                 ELSE IF f = MainRs /\ mainStat >= 0 THEN mainStat
                                 ELSE 0],
         repos |-> [d \in (IF vcs = "none" THEN {} ELSE {Root})
                          \cup (IF vcs # "none" /\ vendor = "submodule"
                                THEN VendorDirs ELSE {}) |->
                        IF d = Root THEN rootRepo ELSE vendorRepo],
         patterns |-> pats]

\* Modification times; -1 stands for a file whose stat fails.
StatChoices == {-1, 100, 250}

Worlds ==
    { MakeWorld(build, sub, vendor, "none", "index", pats, t, m) :
        build \in BOOLEAN, sub \in BOOLEAN, vendor \in {"none", "dir", "locked"},
        pats \in PatternLists, t \in StatChoices \ {-1}, m \in StatChoices }
    \cup
    { MakeWorld(build, sub, vendor, "born", track, pats, 100, m) :
        build \in BOOLEAN, sub \in BOOLEAN,
        vendor \in {"none", "dir", "locked", "submodule", "unopenable"},
        track \in {"index", "status"},
        pats \in PatternLists, m \in StatChoices \ {250} }
    \cup
    { MakeWorld(build, sub, vendor, "unborn", track, pats, 100, m) :
        build \in BOOLEAN, sub \in BOOLEAN,
        vendor \in {"none", "dir", "locked", "submodule", "unopenable"},
        track \in {"index", "status", "both"},
        pats \in PatternLists, m \in StatChoices \ {250} }
    \cup
    { MakeWorld(build, sub, "none", "bare", "index", pats, 100, 100) :
        build \in BOOLEAN, sub \in BOOLEAN, pats \in PatternLists }

----------------------------------------------------------------------------
(* PathSource: list_files.                                                 *)

Ok(v) == [tag |-> "Ok", val |-> v]

Fail(kind) == [tag |-> "Err", kind |-> kind]

\* Filter without the test that the include list is empty.
FilterWithoutLenTest(pkg, path) ==
    LET relative_path == RelativeFrom(path, PkgRoot(pkg))
    IN  \/ \E i \in 1..Len(pkg.include) : Matches(pkg.include[i], relative_path)
        \/ ~\E i \in 1..Len(pkg.exclude) : Matches(pkg.exclude[i], relative_path)

\* The closure `filter` of list_files.
Filter(pkg, path) ==
    LET relative_path == RelativeFrom(path, PkgRoot(pkg))
    IN  \/ \E i \in 1..Len(pkg.include) : Matches(pkg.include[i], relative_path)
        \/ /\ Len(pkg.include) = 0
           /\ ~\E i \in 1..Len(pkg.exclude) : Matches(pkg.exclude[i], relative_path)



RECURSIVE Walk(_, _, _, _, _)
RECURSIVE WalkEntries(_, _, _, _, _, _)

\* WalkEntries without the skip of target and Cargo.lock at the root.
RECURSIVE WalkEntriesNoRootSkip(_, _, _, _, _, _)
WalkEntriesNoRootSkip(w, pkg, entries, i, acc, is_root) ==
    IF i > Len(entries) THEN Ok(acc)
    ELSE IF Filename(entries[i]) = ".git"
         THEN WalkEntriesNoRootSkip(w, pkg, entries, i + 1, acc, is_root)
         ELSE LET r == Walk(w, pkg, entries[i], acc, FALSE)
              IN  IF r.tag = "Err" THEN r
                  ELSE WalkEntriesNoRootSkip(w, pkg, entries, i + 1, r.val, is_root)

\* for dir in try!(fs::readdir(path)).iter() { ... } from entry i on.
WalkEntries(w, pkg, entries, i, acc, is_root) ==
    IF i > Len(entries) THEN Ok(acc)
    ELSE IF \/ Filename(entries[i]) = ".git"
            \/ (is_root /\ Filename(entries[i]) \in {"target", "Cargo.lock"})
         THEN WalkEntries(w, pkg, entries, i + 1, acc, is_root)
         ELSE LET r == Walk(w, pkg, entries[i], acc, FALSE)
              IN  IF r.tag = "Err" THEN r
                  ELSE WalkEntries(w, pkg, entries, i + 1, r.val, is_root)

\* Walk recursing into sub-packages.
WalkIntoSubPackages(w, pkg, path, acc, is_root) ==
    IF ~IsDir(w, path)
    THEN Ok(IF Filter(pkg, path) THEN Append(acc, path) ELSE acc)
    ELSE IF path \in w.unreadable THEN Fail("io")
    ELSE WalkEntries(w, pkg, ReadDir(w, path), 1, acc, is_root)

\* PathSource::walk: `acc` is `ret` before, the result holds `ret` after.
Walk(w, pkg, path, acc, is_root) ==
    IF ~IsDir(w, path)
    THEN Ok(IF Filter(pkg, path) THEN Append(acc, path) ELSE acc)
    ELSE IF ~is_root /\ Exists(w, Append(path, "Cargo.toml")) THEN Ok(acc)
    ELSE IF path \in w.unreadable THEN Fail("io")
    ELSE WalkEntries(w, pkg, ReadDir(w, path), 1, acc, is_root)

\* PathSource::list_files_walk
RECURSIVE ListFilesWalkFrom(_, _, _, _, _)
ListFilesWalkFrom(w, pkgs, pkg, i, acc) ==
    IF i > Len(pkgs) THEN Ok(acc)
    ELSE IF ~PackageEq(pkgs[i], pkg) THEN ListFilesWalkFrom(w, pkgs, pkg, i + 1, acc)
    ELSE LET r == Walk(w, pkg, PkgRoot(pkgs[i]), acc, TRUE)
         IN  IF r.tag = "Err" THEN r
             ELSE ListFilesWalkFrom(w, pkgs, pkg, i + 1, r.val)

ListFilesWalk(w, pkgs, pkg) == ListFilesWalkFrom(w, pkgs, pkg, 1, <<>>)

\* "Filter out sub-packages of this package"
InSubPackage(pkgs, pkg, file_path) ==
    \E k \in 1..Len(pkgs) :
        /\ ~PackageEq(pkgs[k], pkg)
        /\ IsAncestorOf(PkgRoot(pkg), PkgRoot(pkgs[k]))
        /\ IsAncestorOf(PkgRoot(pkgs[k]), file_path)

\* index_files.chain(untracked)
Candidates(w, repoDir) ==
    LET repo == w.repos[repoDir]
    IN  [k \in 1..Len(repo.index) |-> repoDir \o repo.index[k]]
        \o (IF repo.unborn
            THEN [k \in 1..Len(repo.statuses) |-> repoDir \o repo.statuses[k]]
            ELSE <<>>)

RECURSIVE ListFilesGit(_, _, _, _)
RECURSIVE GitEntries(_, _, _, _, _, _, _)

\* 'outer: for file_path in index_files.chain(untracked) { ... } from i on.
GitEntries(w, pkgs, pkg, repoDir, cands, i, acc) ==
    IF i > Len(cands) THEN Ok(acc)
    ELSE LET file_path == cands[i]
             next(a) == GitEntries(w, pkgs, pkg, repoDir, cands, i + 1, a)
         IN  IF ~IsAncestorOf(PkgRoot(pkg), file_path) THEN next(acc)
             ELSE IF Filename(file_path) \in {"Cargo.lock", "target"} THEN next(acc)
             ELSE IF InSubPackage(pkgs, pkg, file_path) THEN next(acc)
             ELSE IF IsDir(w, file_path)
             THEN IF RelativeFrom(file_path, repoDir) \in w.repos[repoDir].submodules
                  THEN \* Ok(submodule) => try!(submodule.open()), recurse
                       IF file_path \notin DOMAIN w.repos THEN Fail("submodule_open")
                       ELSE LET r == ListFilesGit(w, pkgs, pkg, file_path)
                            IN  IF r.tag = "Err" THEN r ELSE next(acc \o r.val)
                  ELSE \* Err(..) => try!(self.walk(&file_path, &mut ret, false, filter))
                       LET r == Walk(w, pkg, file_path, acc, FALSE)
                       IN  IF r.tag = "Err" THEN r ELSE next(r.val)
             ELSE IF Filter(pkg, file_path) THEN next(Append(acc, file_path))
             ELSE next(acc)

\* PathSource::list_files_git with the repository opened at repoDir.
ListFilesGit(w, pkgs, pkg, repoDir) ==
    IF w.repos[repoDir].bare THEN Fail("internal")
    ELSE GitEntries(w, pkgs, pkg, repoDir, Candidates(w, repoDir), 1, <<>>)

\* The probe of list_files: the packages of the source whose root is an
\* ancestor of the package's root and opens as a repository.
RepoProbe(w, pkgs, pkg) ==
    {k \in 1..Len(pkgs) :
        /\ IsAncestorOf(PkgRoot(pkgs[k]), PkgRoot(pkg))
        /\ PkgRoot(pkgs[k]) \in DOMAIN w.repos}

\* PathSource::list_files
ListFiles(w, pkgs, pkg) ==
    IF RepoProbe(w, pkgs, pkg) # {}
    THEN LET k == CHOOSE k \in RepoProbe(w, pkgs, pkg) :
                      \A j \in RepoProbe(w, pkgs, pkg) : k <= j
         IN  ListFilesGit(w, pkgs, pkg, PkgRoot(pkgs[k]))
    ELSE ListFilesWalk(w, pkgs, pkg)

----------------------------------------------------------------------------
(* PathSource: the operations.                                             *)

\* ops::read_packages(&self.path, &self.id, self.config) when it succeeds:
\* the package of every directory that holds a manifest, the root's first.
Discover(w) ==
    LET dirsWithManifest ==
            SelectSeq(Universe, LAMBDA d : d \in w.dirs /\ Append(d, "Cargo.toml") \in w.files)
    IN  [k \in 1..Len(dirsWithManifest) |-> MakePackage(dirsWithManifest[k], w.patterns)]

\* What ops::read_packages may return: the packages, or an error.
ReadOutcomes(w) == {Ok(Discover(w)), Fail("read_packages")}

\* PathSource::read_packages; `found` is what ops::read_packages returns if
\* it is called.
SourceReadPackages(upd, pkgs, found) ==
    IF upd THEN [result |-> Ok(pkgs), ran |-> FALSE]
    ELSE [result |-> found, ran |-> TRUE]

\* SourceUpdate without the `if !self.updated` test.
SourceUpdateAlways(upd, pkgs, found) ==
    IF found.tag = "Err"
    THEN [result |-> found, updated |-> upd, packages |-> pkgs, ran |-> TRUE]
    ELSE [result |-> Ok(<<>>), updated |-> TRUE,
          packages |-> pkgs \o found.val, ran |-> TRUE]

\* SourceUpdate setting the flag before the packages are read.
SourceUpdateFlagFirst(upd, pkgs, found) ==
    IF ~upd
    THEN LET r == SourceReadPackages(upd, pkgs, found)
         IN  IF r.result.tag = "Err"
             THEN [result |-> r.result, updated |-> TRUE, packages |-> pkgs,
                   ran |-> r.ran]
             ELSE [result |-> Ok(<<>>), updated |-> TRUE,
                   packages |-> pkgs \o r.result.val, ran |-> r.ran]
    ELSE [result |-> Ok(<<>>), updated |-> upd, packages |-> pkgs, ran |-> FALSE]

\* Source for PathSource::update
SourceUpdate(upd, pkgs, found) ==
    IF ~upd
    THEN LET r == SourceReadPackages(upd, pkgs, found)
         IN  IF r.result.tag = "Err"
             THEN [result |-> r.result, updated |-> upd, packages |-> pkgs,
                   ran |-> r.ran]
             ELSE [result |-> Ok(<<>>), updated |-> TRUE,
                   packages |-> pkgs \o r.result.val, ran |-> r.ran]
    ELSE [result |-> Ok(<<>>), updated |-> upd, packages |-> pkgs, ran |-> FALSE]

\* PathSource::get_root_package
GetRootPackage(upd, pkgs, path) ==
    IF ~upd THEN Fail("internal")
    ELSE IF \E k \in 1..Len(pkgs) : PkgRoot(pkgs[k]) = path
    THEN Ok(pkgs[CHOOSE k \in 1..Len(pkgs) :
                    /\ PkgRoot(pkgs[k]) = path
                    /\ \A j \in 1..(k - 1) : PkgRoot(pkgs[j]) # path])
    ELSE Fail("internal")

\* Package::get_summary()
GetSummary(pkg) == [package_id |-> pkg.package_id]

\* Registry for Vec<Summary>::query: the summaries the dependency matches.
VecQuery(summaries, dep) ==
    Ok(SelectSeq(summaries, LAMBDA sm : sm.package_id.name = dep.name))

\* Registry for PathSource::query
SourceQuery(pkgs, dep) ==
    VecQuery([k \in 1..Len(pkgs) |-> GetSummary(pkgs[k])], dep)

\* Source for PathSource::download
SourceDownload(pkgs, ids) == Ok(<<>>)

\* SourceGet collecting the packages id by id, in the order of ids.
SourceGetByIds(pkgs, ids) ==
    LET RECURSIVE Go(_)
        Go(k) == IF k > Len(ids) THEN <<>>
                 ELSE SelectSeq(pkgs, LAMBDA pkg :
                          PackageIdEq(pkg.package_id, ids[k])) \o Go(k + 1)
    IN  Ok(Go(1))

\* Source for PathSource::get
SourceGet(pkgs, ids) ==
    Ok(SelectSeq(pkgs, LAMBDA pkg :
            \E k \in 1..Len(ids) : PackageIdEq(pkg.package_id, ids[k])))

\* u64::to_string: the decimal digits.
RECURSIVE U64ToString(_)
U64ToString(n) ==
    LET digit == <<"0", "1", "2", "3", "4", "5", "6", "7", "8", "9">>[(n % 10) + 1]
    IN  IF n < 10 THEN <<digit>> ELSE Append(U64ToString(n \div 10), digit)

\* file.stat().map(|s| s.modified).unwrap_or(0)
ModifiedOrZero(w, file) ==
    IF file \in w.files /\ file \notin w.unstatable THEN w.mtime[file] ELSE 0

\* let mut max = 0; for file in ... { max = cmp::max(max, ...) }
RECURSIVE MaxModified(_, _, _, _)
MaxModified(w, listed, i, max) ==
    IF i > Len(listed) THEN max
    ELSE LET m == ModifiedOrZero(w, listed[i])
         IN  MaxModified(w, listed, i + 1, IF m > max THEN m ELSE max)

\* Fingerprint keeping the time of the last file instead of the greatest.
FingerprintLast(w, upd, pkgs, pkg) ==
    IF ~upd THEN [result |-> Fail("internal"), listed |-> Fail("internal")]
    ELSE LET l == ListFiles(w, pkgs, pkg)
         IN  IF l.tag = "Err" THEN [result |-> l, listed |-> l]
             ELSE [result |-> Ok(U64ToString(IF Len(l.val) = 0 THEN 0
                                         ELSE ModifiedOrZero(w, l.val[Len(l.val)]))),
                   listed |-> l]

\* Source for PathSource::fingerprint: the result, and what list_files
\* returned to it.
Fingerprint(w, upd, pkgs, pkg) ==
    IF ~upd THEN [result |-> Fail("internal"), listed |-> Fail("internal")]
    ELSE LET l == ListFiles(w, pkgs, pkg)
         IN  IF l.tag = "Err" THEN [result |-> l, listed |-> l]
             ELSE [result |-> Ok(U64ToString(MaxModified(w, l.val, 1, 0))), listed |-> l]

\* The arguments the callers pass: a package read from the disk, package
\* ids, and dependencies.
PackageArgs == Range(Discover(world))

IdArgs ==
    LET foo == PathPackageId(Root)
        bar == PathPackageId(<<"p", "sub">>)
        zzz == [name |-> "zzz", version |-> 1, source_id |-> "path"]
    IN  {<<>>, <<foo>>, <<bar>>, <<zzz>>, <<bar, foo>>, <<foo, foo>>, <<zzz, bar>>}

DepArgs == {[name |-> "foo"], [name |-> "bar"], [name |-> "zzz"]}

CallUpdate ==
    /\ \E found \in ReadOutcomes(world) :
          LET r == SourceUpdate(updated, packages, found)
          IN  /\ updated' = r.updated
              /\ packages' = r.packages
              /\ ret' = [op |-> "update", result |-> r.result,
                         again |-> updated, ran |-> r.ran]
    /\ UNCHANGED <<world, sumVars, cacheVars>>

\* CallReadPackages keeping the packages it read.
CallReadPackagesStoring ==
    /\ \E found \in ReadOutcomes(world) :
          LET r == SourceReadPackages(updated, packages, found)
          IN  /\ ret' = [op |-> "read_packages", result |-> r.result, ran |-> r.ran]
              /\ packages' = IF r.result.tag = "Ok" THEN r.result.val ELSE packages
    /\ UNCHANGED <<world, updated, sumVars, cacheVars>>

CallReadPackages ==
    /\ \E found \in ReadOutcomes(world) :
          LET r == SourceReadPackages(updated, packages, found)
          IN  ret' = [op |-> "read_packages", result |-> r.result, ran |-> r.ran]
    /\ UNCHANGED <<world, updated, packages, sumVars, cacheVars>>

CallGetRootPackage ==
    /\ ret' = [op |-> "get_root_package",
               result |-> GetRootPackage(updated, packages, Root)]
    /\ UNCHANGED <<world, updated, packages, sumVars, cacheVars>>

CallQuery ==
    /\ \E dep \in DepArgs :
          ret' = [op |-> "query", dep |-> dep, result |-> SourceQuery(packages, dep)]
    /\ UNCHANGED <<world, updated, packages, sumVars, cacheVars>>

CallDownload ==
    /\ \E ids \in IdArgs :
          ret' = [op |-> "download", ids |-> ids, result |-> SourceDownload(packages, ids)]
    /\ UNCHANGED <<world, updated, packages, sumVars, cacheVars>>

CallGet ==
    /\ \E ids \in IdArgs :
          ret' = [op |-> "get", ids |-> ids, result |-> SourceGet(packages, ids)]
    /\ UNCHANGED <<world, updated, packages, sumVars, cacheVars>>

CallListFiles ==
    /\ \E pkg \in PackageArgs :
          ret' = [op |-> "list_files", pkg |-> pkg, world |-> world,
                  result |-> ListFiles(world, packages, pkg)]
    /\ UNCHANGED <<world, updated, packages, sumVars, cacheVars>>

CallFingerprint ==
    /\ \E pkg \in PackageArgs :
          LET r == Fingerprint(world, updated, packages, pkg)
          IN  ret' = [op |-> "fingerprint", pkg |-> pkg, world |-> world,
                      result |-> r.result, listed |-> r.listed]
    /\ UNCHANGED <<world, updated, packages, sumVars, cacheVars>>

\* The relative paths an index or a status may list, in path order.
ListingOrder ==
    << <<"Cargo.lock">>, <<"Cargo.toml">>, <<"src">>, <<"src", "main.rs">>,
       <<"sub">>, <<"sub", "Cargo.toml">>, <<"sub", "lib.rs">>,
       <<"target">>, <<"target", "debug", "foo">>,
       <<"vendor">>, <<"vendor", "v.rs">> >>

\* A listing of a repository after the paths `more` joined it.
Listed(listing, more) ==
    SelectSeq(ListingOrder, LAMBDA rel : rel \in Range(listing) \cup more)

\* The repository at the root after sub/ appeared in its working tree: with
\* `added` its files are in the index (git add), and the status of a
\* repository without commits reports them; otherwise that status reports
\* the untracked directory.
RepoWithSub(repo, added) ==
    LET subFiles == {<<"sub", "Cargo.toml">>, <<"sub", "lib.rs">>}
    IN  [repo EXCEPT
            !.index = IF added THEN Listed(@, subFiles) ELSE @,
            !.statuses = IF ~repo.unborn \/ repo.statuses = <<>> THEN @
                         ELSE IF added THEN Listed(@, subFiles)
                         ELSE Listed(@, {<<"sub">>})]

\* Somebody creates the nested package sub/ on the disk, and may add it to
\* the repository's index.
CreateSubPackage ==
    /\ SubDirs \cap world.dirs = {}
    /\ \E added \in BOOLEAN :
          /\ added => (Root \in DOMAIN world.repos /\ ~world.repos[Root].bare)
          /\ world' = [world EXCEPT
                          !.dirs = @ \cup SubDirs,
                          !.files = @ \cup SubFiles,
                          !.mtime = [f \in DOMAIN @ \cup SubFiles |->
                                        IF f \in DOMAIN @ THEN @[f] ELSE 0],
                          !.repos = [d \in DOMAIN @ |->
                                        IF d = Root THEN RepoWithSub(@[d], added)
                                        ELSE @[d]]]
    /\ UNCHANGED <<updated, packages, ret, sumVars, cacheVars>>

----------------------------------------------------------------------------
(* The specifications.  Each component starts from its own initial states  *)
(* and takes its own steps; the other components stay idle.                *)

IdleSummary ==
    /\ deps = <<>>
    /\ feats = <<>>
    /\ summary = NoValue
    /\ derived = NoValue
    /\ cmp = NoValue

IdlePath ==
    /\ world = MakeWorld(FALSE, FALSE, "none", "none", "index",
                         [include |-> <<>>, exclude |-> <<>>], 100, 100)
    /\ updated = FALSE
    /\ packages = <<>>
    /\ ret = NoValue

IdleCache ==
    /\ files = [f \in ManifestFiles |-> "unreadable"]
    /\ writes = 0
    /\ cache = <<>>
    /\ heap = <<>>
    /\ log = <<>>

InitSummary == IdleSummary /\ IdleCache /\ IdlePath

NextSummary ==
    \/ PushDependency
    \/ InsertFeature
    \/ PushFeatureDependency
    \/ PushSubFeature
    \/ New
    \/ CallOverrideId
    \/ CallMapDependencies
    \/ CallEq

SpecSummary == InitSummary /\ [][NextSummary]_vars

InitCache ==
    /\ files \in [ManifestFiles -> Contents]
    /\ writes = 0
    /\ cache = <<>>
    /\ heap = <<>>
    /\ log = <<>>
    /\ IdleSummary
    /\ IdlePath

NextCache == CallParseManifest \/ WriteFile

SpecCache == InitCache /\ [][NextCache]_vars

\* PathSource::new, on any of the file systems.
Init ==
    /\ world \in Worlds
    /\ updated = FALSE
    /\ packages = <<>>
    /\ ret = NoValue
    /\ IdleSummary
    /\ IdleCache

Next ==
    \/ CallUpdate
    \/ CallReadPackages
    \/ CallGetRootPackage
    \/ CallQuery
    \/ CallDownload
    \/ CallGet
    \/ CallListFiles
    \/ CallFingerprint
    \/ CreateSubPackage

Spec == Init /\ [][Next]_vars

----------------------------------------------------------------------------
(* Properties of Summary.                                                  *)

Called == summary # NoValue

\* The dependency name a token refers to, described without the split: the
\* prefix that holds no '/' and is followed by a '/' or by the token's end.
TokenName(tok) ==
    CHOOSE p \in {SubSeq(tok, 1, k) : k \in 0..Len(tok)} :
        /\ "/" \notin Range(p)
        /\ (Len(p) = Len(tok) \/ tok[Len(p) + 1] = "/")

HasSlash(tok) == "/" \in Range(tok)

Named(x) == {i \in 1..Len(deps) : deps[i].name = x}

\* C4: a feature's plain token whose dependency does not exist, or exists
\* only as non-optional, makes Summary::new fail; a reexport token "x/y" fails
\* when no dependency x exists and is accepted when one exists, optional or
\* not: a "not optional" error always stems from a plain token, and a "not a
\* dependency" error from a token whose dependency is missing.
C4_FeatureTokens ==
    Called =>
      /\ \A f \in DOMAIN feats : \A i \in 1..Len(feats[f].dependencies) :
            LET t == feats[f].dependencies[i]
                x == TokenName(t)
            IN  /\ Named(x) = {} => summary.tag = "Err"
                /\ (~HasSlash(t) /\ \A j \in Named(x) : ~deps[j].optional)
                      => summary.tag = "Err"
      /\ (summary.tag = "Err" /\ summary.kind = "not_optional") =>
            \E t \in Range(feats[summary.feature].dependencies) :
                /\ ~HasSlash(t)
                /\ TokenName(t) = summary.name
                /\ \E j \in Named(summary.name) : ~deps[j].optional
      /\ (summary.tag = "Err" /\ summary.kind = "not_a_dependency") =>
            \E t \in Range(feats[summary.feature].dependencies) :
                TokenName(t) = summary.name /\ Named(summary.name) = {}

\* A Summary was returned although a feature lists a reexport with two
\* separators of a dependency that is not optional.
C4_Witness ==
    /\ summary.tag = "Ok"
    /\ \E f \in DOMAIN feats : \E t \in Range(feats[f].dependencies) :
          /\ HasSlash(t) /\ Len(t) > 3
          /\ Named(TokenName(t)) # {}
          /\ \A j \in Named(TokenName(t)) : ~deps[j].optional

\* C5: an input with a dependency that is optional and not transitive makes
\* Summary::new return an error and no Summary, whatever the features are.
C5_DevDependencyOptional ==
    (Called /\ \E i \in 1..Len(deps) : deps[i].optional /\ ~deps[i].transitive)
        => (summary.tag = "Err" /\ "val" \notin DOMAIN summary)

\* Summary::new failed on an input with an optional dev-dependency and a
\* feature that lists a dependency.
C5_Witness ==
    /\ Called
    /\ \E i \in 1..Len(deps) : deps[i].optional /\ ~deps[i].transitive
    /\ \E f \in DOMAIN feats : feats[f].dependencies # <<>>
    /\ summary.tag = "Err"

\* C6: a feature naming a sub-feature that is not a key of the features map
\* makes Summary::new return an error and no Summary; a sub-feature error is
\* only ever about a name that is not a key, so a feature naming itself or
\* another key (also cyclically) is not rejected for it.
C6_SubFeatures ==
    Called =>
      /\ (\E f \in DOMAIN feats : \E g \in Range(feats[f].features) : g \notin DOMAIN feats)
            => (summary.tag = "Err" /\ "val" \notin DOMAIN summary)
      /\ (summary.tag = "Err" /\ summary.kind = "not_a_feature") =>
            /\ summary.name \notin DOMAIN feats
            /\ summary.name \in Range(feats[summary.feature].features)
      /\ ( /\ \A i \in 1..Len(deps) : deps[i].transitive
           /\ \A f \in DOMAIN feats : feats[f].dependencies = <<>>
           /\ \A f \in DOMAIN feats : Range(feats[f].features) \subseteq DOMAIN feats )
            => summary.tag = "Ok"

\* A Summary was returned for features f and g that name each other, one of
\* them naming itself too.
C6_Witness ==
    /\ summary.tag = "Ok"
    /\ \E f \in DOMAIN feats : \E g \in DOMAIN feats \ {f} :
          /\ g \in Range(feats[f].features)
          /\ f \in Range(feats[g].features)
          /\ f \in Range(feats[f].features)

\* C7: two Summaries compare equal exactly when their package ids are equal.
C7_EqualityByPackageId ==
    cmp # NoValue => (cmp.res <=> cmp.a.package_id = cmp.b.package_id)

\* Equal ids with different dependencies compared equal.
C7_Witness ==
    /\ cmp # NoValue
    /\ cmp.res
    /\ cmp.a.dependencies # cmp.b.dependencies

\* C8: override_id returns a Summary with the given package id and with the
\* dependencies and features of the Summary it was called on; it always
\* returns a Summary.
C8_OverrideId ==
    (derived # NoValue /\ derived.op = "override_id") =>
      /\ derived.from = summary.val
      /\ derived.val.package_id = derived.id
      /\ derived.val.dependencies = derived.from.dependencies
      /\ derived.val.features = derived.from.features
      /\ DOMAIN derived.val = {"package_id", "dependencies", "features"}

\* override_id was given a new id for a Summary with two different
\* dependencies and a feature.
C8_Witness ==
    /\ derived # NoValue /\ derived.op = "override_id"
    /\ derived.id # derived.from.package_id
    /\ Len(derived.from.dependencies) >= 2
    /\ derived.from.dependencies[1] # derived.from.dependencies[2]
    /\ DOMAIN derived.from.features # {}

\* C9: map_dependencies returns a Summary with as many dependencies as
\* before, the i-th being f applied to the original i-th; f is invoked once
\* per element, in index order; package id and features are unchanged, and
\* the result is returned without being validated.
C9_MapDependencies ==
    (derived # NoValue /\ derived.op = "map_dependencies") =>
      /\ derived.from = summary.val
      /\ Len(derived.val.dependencies) = Len(derived.from.dependencies)
      /\ \A i \in 1..Len(derived.from.dependencies) :
            derived.val.dependencies[i]
                = Apply(derived.f, derived.from.dependencies[i], i - 1)
      /\ derived.calls = derived.from.dependencies
      /\ derived.val.package_id = derived.from.package_id
      /\ derived.val.features = derived.from.features

\* A closure that changes only the element of its first invocation was
\* mapped over two different dependencies, and the result holds an optional
\* dev-dependency, which Summary::new would have rejected.
C9_Witness ==
    /\ derived # NoValue /\ derived.op = "map_dependencies"
    /\ derived.f = "first_only"
    /\ Len(derived.from.dependencies) >= 2
    /\ derived.from.dependencies[1] # derived.from.dependencies[2]
    /\ derived.val.dependencies[1].optional
    /\ ~derived.val.dependencies[1].transitive

\* The rules of Summary::new, stated on its arguments: a dependency that is
\* optional and not transitive; a token of feature f whose dependency does
\* not exist, or is plain while the first dependency of its name is not
\* optional; a sub-feature of f that is no key.
BadDevDep == \E i \in 1..Len(deps) : deps[i].optional /\ ~deps[i].transitive

BadToken(f) ==
    \E t \in Range(feats[f].dependencies) :
        \/ Named(TokenName(t)) = {}
        \/ /\ ~HasSlash(t)
           /\ \E i \in Named(TokenName(t)) :
                 /\ ~deps[i].optional
                 /\ \A j \in Named(TokenName(t)) : i <= j

BadSubFeature(f) == \E g \in Range(feats[f].features) : g \notin DOMAIN feats

TokenErrors == {"not_a_dependency", "not_optional"}

\* C17 as stated: the error is the one of the earliest violated step, the
\* steps being the dev-dependencies, then the dependency tokens of all
\* features, then the sub-features of all features.
C17_ErrorOfEarliestStep ==
    Called =>
        /\ BadDevDep => (summary.tag = "Err" /\ summary.kind = "dev_optional")
        /\ (~BadDevDep /\ \E f \in DOMAIN feats : BadToken(f)) =>
              (summary.tag = "Err" /\ summary.kind \in TokenErrors)

\* C17 as amended: a dev-dependency error precedes every feature error; a
\* missing sub-feature is reported for a feature only when that feature has
\* no bad token; and a bad token is reported when no feature has a missing
\* sub-feature.
C17_ErrorOrderWithinFeature ==
    Called =>
        /\ BadDevDep => (summary.tag = "Err" /\ summary.kind = "dev_optional")
        /\ (~BadDevDep /\ \E f \in DOMAIN feats : BadToken(f) \/ BadSubFeature(f)) =>
              /\ summary.tag = "Err"
              /\ summary.kind = "not_a_feature" =>
                    (BadSubFeature(summary.feature) /\ ~BadToken(summary.feature))
              /\ summary.kind \in TokenErrors => BadToken(summary.feature)
              /\ (\A f \in DOMAIN feats : ~BadSubFeature(f)) =>
                    summary.kind \in TokenErrors

\* A missing sub-feature of one feature was reported although another
\* feature has a bad token.
C17_Witness ==
    /\ Called /\ summary.tag = "Err" /\ summary.kind = "not_a_feature"
    /\ \E f \in DOMAIN feats \ {summary.feature} : BadToken(f)

\* A dev-dependency error was reported although a feature has a bad token and
\* a missing sub-feature.
C17_WitnessDev ==
    /\ Called /\ summary.tag = "Err" /\ summary.kind = "dev_optional"
    /\ \E f \in DOMAIN feats : BadToken(f) /\ BadSubFeature(f)

----------------------------------------------------------------------------
(* Properties of ManifestCache.                                            *)

\* The calls of the log made for a manifest file of directory d.
CallsFor(d) == {i \in 1..Len(log) : Parent(log[i].file) = d}

Dirs == {Parent(f) : f \in ManifestFiles}

\* C3 as stated: for every directory the read and the parse are executed at
\* most once, whatever the calls return.
C3_ReadAndParseAtMostOnce ==
    \A d \in Dirs :
        /\ Cardinality({i \in CallsFor(d) : log[i].read}) <= 1
        /\ Cardinality({i \in CallsFor(d) : log[i].parsed}) <= 1

\* C3 as amended: for every directory at most one call reads and parses
\* successfully; every call for the directory after a successful one neither
\* reads nor parses and returns the same shared ParseOutput, which stays the
\* stored entry.
C3_SuccessfulParseAtMostOnce ==
    /\ \A d \in Dirs :
          Cardinality({i \in CallsFor(d) : log[i].parsed /\ log[i].ret.tag = "Ok"}) <= 1
    /\ \A i \in 1..Len(log) : \A j \in (i + 1)..Len(log) :
          (Parent(log[i].file) = Parent(log[j].file) /\ log[i].ret.tag = "Ok") =>
              /\ ~log[j].read
              /\ ~log[j].parsed
              /\ log[j].ret = log[i].ret
    /\ \A i \in 1..Len(log) :
          log[i].ret.tag = "Ok" =>
              /\ Parent(log[i].file) \in DOMAIN cache
              /\ cache[Parent(log[i].file)] = log[i].ret.rc

\* Two calls for two files of one directory both returned Ok, the second
\* file being one that cannot be read or parsed.
C3_Witness ==
    /\ Len(log) >= 2
    /\ log[1].ret.tag = "Ok" /\ log[2].ret.tag = "Ok"
    /\ Parent(log[1].file) = Parent(log[2].file)
    /\ log[1].file # log[2].file
    /\ files[log[2].file] \in {"unreadable", "invalid"}

\* The call logged last.
LastCall(l) == l[Len(l)]

\* C18: a call that returns an error was a miss that read the file; the
\* error carries the file's path and is a read error exactly when the file
\* cannot be read; the call leaves the cache and its entries as they were;
\* and as long as the calls for a directory fail, the next call for it reads
\* the file again.
C18_FailureStoresNothing ==
    /\ [][(log' # log /\ LastCall(log').ret.tag = "Err") =>
            /\ Parent(LastCall(log').file) \notin DOMAIN cache
            /\ LastCall(log').read
            /\ LastCall(log').ret.path = LastCall(log').file
            /\ LastCall(log').ret.kind = "read" <=> files[LastCall(log').file] = "unreadable"
            /\ LastCall(log').ret.kind = "parse" <=> files[LastCall(log').file] = "invalid"
            /\ cache' = cache
            /\ heap' = heap]_vars
    /\ [](\A i \in 1..Len(log) : \A j \in (i + 1)..Len(log) :
            ( /\ Parent(log[i].file) = Parent(log[j].file)
              /\ \A k \in i..(j - 1) :
                    Parent(log[k].file) = Parent(log[i].file) => log[k].ret.tag = "Err" )
                => log[j].read)

\* A call for a directory failed to deserialize the file while the cache
\* held an entry of another directory, and the next call for the directory
\* read again and returned a manifest.
C18_Witness ==
    /\ Len(log) = 3
    /\ log[1].ret.tag = "Ok"
    /\ Parent(log[2].file) # Parent(log[1].file)
    /\ log[2].ret.tag = "Err" /\ log[2].parsed
    /\ Parent(log[3].file) = Parent(log[2].file)
    /\ log[3].read /\ log[3].ret.tag = "Ok"
    /\ cache[Parent(log[1].file)] = log[1].ret.rc

----------------------------------------------------------------------------
(* Properties of PathSource.                                               *)

ReadOperations ==
    {"query", "get", "download", "list_files", "fingerprint", "get_root_package"}

\* C1: on a source that has not been updated, query, get, download,
\* list_files, fingerprint and get_root_package return an internal error.
C1_FailFastBeforeUpdate ==
    (~updated /\ ret # NoValue /\ ret.op \in ReadOperations)
        => (ret.result.tag = "Err" /\ ret.result.kind = "internal")

\* C2: once the source is updated, every step leaves the updated flag and
\* the package list as they are, and an update call returns Ok without
\* running the package discovery.
C2_UpdateIdempotent ==
    [][updated =>
          /\ updated'
          /\ packages' = packages
          /\ (ret' # ret /\ ret'.op = "update") =>
                (ret'.result.tag = "Ok" /\ ret'.again /\ ~ret'.ran)]_vars

\* update was called on an updated source while the disk holds a package
\* that the source has not discovered.
C2_Witness ==
    /\ updated
    /\ ret # NoValue /\ ret.op = "update" /\ ret.again
    /\ ret.result.tag = "Ok"
    /\ Discover(world) # packages
    /\ Len(packages) >= 1

\* The number a sequence of decimal digits denotes.
RECURSIVE DecimalValue(_)
DecimalValue(str) ==
    IF Len(str) = 0 THEN 0
    ELSE LET d == CHOOSE k \in 0..9 :
                     <<"0", "1", "2", "3", "4", "5", "6", "7", "8", "9">>[k + 1] = str[Len(str)]
         IN  10 * DecimalValue(SubSeq(str, 1, Len(str) - 1)) + d

\* The modification time of a file, 0 when it cannot be stat'ed.
MtimeOrZero(f) ==
    IF f \in ret.world.files /\ f \notin ret.world.unstatable THEN ret.world.mtime[f] ELSE 0

\* C10: on an updated source for which list_files returns a list,
\* fingerprint returns the decimal string of the greatest modification time
\* of the listed files, a file whose stat fails counting as 0.
C10_FingerprintIsMaxMtime ==
    (ret # NoValue /\ ret.op = "fingerprint" /\ updated) =>
      /\ ret.listed = ListFiles(ret.world, packages, ret.pkg)
      /\ ret.listed.tag = "Err" => ret.result.tag = "Err"
      /\ ret.listed.tag = "Ok" =>
            /\ ret.result.tag = "Ok"
            /\ Len(ret.result.val) >= 1
            /\ (Len(ret.result.val) > 1 => ret.result.val[1] # "0")
            /\ \A f \in Range(ret.listed.val) : DecimalValue(ret.result.val) >= MtimeOrZero(f)
            /\ \/ DecimalValue(ret.result.val) = 0
               \/ \E f \in Range(ret.listed.val) : DecimalValue(ret.result.val) = MtimeOrZero(f)
            /\ (\A f \in Range(ret.listed.val) : f \in ret.world.unstatable)
                  => ret.result.val = <<"0">>

\* The listed files are one of modification time 100 and one whose stat
\* fails, and the fingerprint is "100".
C10_Witness ==
    /\ updated
    /\ ret # NoValue /\ ret.op = "fingerprint"
    /\ ret.listed.tag = "Ok"
    /\ Len(ret.listed.val) = 2
    /\ \E f \in Range(ret.listed.val) : f \in ret.world.unstatable
    /\ \E f \in Range(ret.listed.val) : f \notin ret.world.unstatable /\ ret.world.mtime[f] = 100
    /\ ret.result = Ok(<<"1", "0", "0">>)

----------------------------------------------------------------------------
(* Properties of list_files.                                               *)

\* list_files was called on an updated source for the package at the root.
ListedRoot == ret # NoValue /\ ret.op = "list_files" /\ PkgRoot(ret.pkg) = Root

\* The scenario of C11: the root p is in no repository, declares no include
\* or exclude pattern and holds exactly Cargo.toml, src/main.rs,
\* target/debug/foo and Cargo.lock.
C11_Scenario ==
    /\ updated
    /\ ListedRoot
    /\ DOMAIN ret.world.repos = {}
    /\ ret.world.patterns = [include |-> <<>>, exclude |-> <<>>]
    /\ ret.world.files = {RootManifest, MainRs} \cup BuildFiles

\* C11 as stated: in the scenario list_files returns exactly src/main.rs.
C11_OnlyMainRs ==
    C11_Scenario =>
        /\ ret.result.tag = "Ok"
        /\ [k \in 1..Len(ret.result.val) |-> RelativeFrom(ret.result.val[k], Root)]
              = << <<"src", "main.rs">> >>

\* C11 as amended: in the scenario list_files returns two paths, the
\* manifest p/Cargo.toml and p/src/main.rs, and so neither the lockfile nor
\* anything under target.
C11_ManifestAndMainRs ==
    C11_Scenario =>
        /\ ret.result.tag = "Ok"
        /\ Len(ret.result.val) = 2
        /\ Range(ret.result.val) = {RootManifest, MainRs}

\* list_files returned in the scenario.
C11_Witness == C11_Scenario /\ ret.result.tag = "Ok" /\ Len(packages) = 1

\* The result of the list_files call, when it returned a list.
ListOk == ret # NoValue /\ ret.op = "list_files" /\ ret.result.tag = "Ok"

\* C12: list_files never returns the Cargo.lock of the package's root nor a
\* file under the target directory of the package's root.
C12_NeverLockfileOrTarget ==
    ListOk =>
        \A f \in Range(ret.result.val) :
            /\ f # Append(PkgRoot(ret.pkg), "Cargo.lock")
            /\ ~IsAncestorOf(Append(PkgRoot(ret.pkg), "target"), f)

\* The directories strictly below the package's root that hold a manifest.
NestedPackageDirs(pkg) ==
    {d \in ret.world.dirs :
        /\ d # PkgRoot(pkg)
        /\ IsAncestorOf(PkgRoot(pkg), d)
        /\ Append(d, "Cargo.toml") \in ret.world.files}

\* The roots of the packages the source has discovered, other than pkg, that
\* lie strictly below the root of pkg.
DiscoveredBelow(pkg) ==
    {PkgRoot(packages[k]) : k \in {j \in 1..Len(packages) :
        /\ packages[j].package_id # pkg.package_id
        /\ PkgRoot(packages[j]) # PkgRoot(pkg)
        /\ IsAncestorOf(PkgRoot(pkg), PkgRoot(packages[j]))}}

\* list_files took the VCS path: a discovered package at or above the
\* package's root opens as a repository.
OnVcsPath(pkg) ==
    \E k \in 1..Len(packages) :
        /\ IsAncestorOf(PkgRoot(packages[k]), PkgRoot(pkg))
        /\ PkgRoot(packages[k]) \in DOMAIN ret.world.repos

\* Every path an index or a status of a repository lists.
AllListed ==
    UNION {{d \o rel : rel \in Range(ret.world.repos[d].index)
                               \cup Range(ret.world.repos[d].statuses)} :
           d \in DOMAIN ret.world.repos}

Included(pkg, f) ==
    LET rel == RelativeFrom(f, PkgRoot(pkg))
    IN  IF Range(pkg.include) # {}
        THEN \E p \in Range(pkg.include) : Matches(p, rel)
        ELSE \A p \in Range(pkg.exclude) : ~Matches(p, rel)

\* The source holds the package.
Holds(pkg) == \E k \in 1..Len(packages) : packages[k].package_id = pkg.package_id

\* The non-directory candidates of the walk path that no rule skips: the
\* files below the root that are not in a .git directory, not the root's
\* Cargo.lock or below the root's target, and in no directory below the root
\* that holds a manifest.
WalkCandidates(pkg) ==
    {f \in ret.world.files :
        LET rel == RelativeFrom(f, PkgRoot(pkg))
        IN  /\ IsAncestorOf(PkgRoot(pkg), f)
            /\ Holds(pkg)
            /\ ".git" \notin Range(rel)
            /\ rel[1] \notin {"target", "Cargo.lock"}
            /\ \A d \in NestedPackageDirs(pkg) : ~IsAncestorOf(d, f)}

\* The repository list_files opens: of the first discovered package whose
\* root is at or above the package's root and is a repository.
ProbedRepo(pkg) ==
    LET hits == {k \in 1..Len(packages) :
                    /\ IsAncestorOf(PkgRoot(packages[k]), PkgRoot(pkg))
                    /\ PkgRoot(packages[k]) \in DOMAIN ret.world.repos}
    IN  PkgRoot(packages[CHOOSE k \in hits : \A j \in hits : k <= j])

\* The non-directory candidates of the VCS path that no rule skips: the
\* files the index lists (and the status, without commits) in the package,
\* not named Cargo.lock or target and in no other discovered package.
VcsCandidates(pkg) ==
    LET repo == ret.world.repos[ProbedRepo(pkg)]
        listed == Range(repo.index)
                  \cup (IF repo.unborn THEN Range(repo.statuses) ELSE {})
    IN  {f \in {ProbedRepo(pkg) \o rel : rel \in listed} :
            /\ f \notin ret.world.dirs
            /\ IsAncestorOf(PkgRoot(pkg), f)
            /\ f[Len(f)] \notin {"Cargo.lock", "target"}
            /\ \A d \in DiscoveredBelow(pkg) : ~IsAncestorOf(d, f)}

\* C14: every returned path passes the inclusion rule; with a non-empty
\* include list the call returns what it returns for an empty exclude list;
\* and a non-directory candidate that no rule skips is returned exactly when
\* the inclusion rule accepts it.
C14_InclusionFilter ==
    ListOk =>
        /\ \A f \in Range(ret.result.val) : Included(ret.pkg, f)
        /\ ret.pkg.include # <<>> =>
              ret.result = ListFiles(ret.world, packages,
                                     [ret.pkg EXCEPT !.exclude = <<>>])
        /\ \A f \in (IF OnVcsPath(ret.pkg) THEN VcsCandidates(ret.pkg)
                     ELSE WalkCandidates(ret.pkg)) :
              f \in Range(ret.result.val) <=> Included(ret.pkg, f)

\* With a non-empty include list a returned file matches an exclude pattern,
\* and a candidate was left out; once on each path.
C14_WitnessOn(vcs) ==
    /\ ListOk
    /\ OnVcsPath(ret.pkg) = vcs
    /\ ret.pkg.include # <<>>
    /\ \E f \in Range(ret.result.val) : \E p \in Range(ret.pkg.exclude) :
          Matches(p, RelativeFrom(f, PkgRoot(ret.pkg)))
    /\ \E f \in (IF vcs THEN VcsCandidates(ret.pkg) ELSE WalkCandidates(ret.pkg)) :
          f \notin Range(ret.result.val)

C14_Witness == C14_WitnessOn(FALSE)

C14_WitnessVcs == C14_WitnessOn(TRUE)

\* The directory candidates of the VCS path that no rule skips.
DirCandidates(pkg) ==
    LET repo == ret.world.repos[ProbedRepo(pkg)]
        listed == Range(repo.index)
                  \cup (IF repo.unborn THEN Range(repo.statuses) ELSE {})
    IN  {d \in {ProbedRepo(pkg) \o rel : rel \in listed} :
            /\ d \in ret.world.dirs
            /\ IsAncestorOf(PkgRoot(pkg), d)
            /\ d[Len(d)] \notin {"Cargo.lock", "target"}
            /\ \A s \in DiscoveredBelow(pkg) : ~IsAncestorOf(s, d)}

\* The directory is a submodule of the repository over it, found or not
\* found by find_submodule, opening or not.
IsSubmodule(pkg, d) ==
    RelativeFrom(d, ProbedRepo(pkg)) \in ret.world.repos[ProbedRepo(pkg)].submodules

Opens(d) == d \in DOMAIN ret.world.repos

\* The files a plain walk rooted at d finds: those under d, outside .git
\* and outside every directory from d down that holds a manifest.
PlainWalk(d) ==
    {f \in ret.world.files :
        /\ IsAncestorOf(d, f)
        /\ ".git" \notin Range(f)
        /\ \A k \in Len(d)..(Len(f) - 1) :
              Append(SubSeq(f, 1, k), "Cargo.toml") \notin ret.world.files}

\* C15: on the VCS path of a repository with a working tree whose
\* directories can all be read, list_files returns a list; for a directory
\* candidate that is a submodule and opens, the list holds the included
\* files of the submodule's index, and for every other directory candidate
\* (not a submodule, or a submodule that does not open) the included files
\* of a plain walk rooted there.
C15_SubmoduleErrorsFallBack ==
    ( /\ ret # NoValue /\ ret.op = "list_files"
      /\ OnVcsPath(ret.pkg)
      /\ ~ret.world.repos[ProbedRepo(ret.pkg)].bare
      /\ ret.world.unreadable = {} ) =>
        /\ ret.result.tag = "Ok"
        /\ \A d \in DirCandidates(ret.pkg) :
              LET found == IF IsSubmodule(ret.pkg, d) /\ Opens(d)
                           THEN {d \o rel : rel \in Range(ret.world.repos[d].index)}
                           ELSE PlainWalk(d)
              IN  \A f \in found : Included(ret.pkg, f) => f \in Range(ret.result.val)

----------------------------------------------------------------------------
(* Properties of get, of the state of PathSource and of the frame.         *)

\* C16: get returns the discovered packages whose id occurs in ids, each
\* once and in the order of the package list, whatever the order of ids and
\* however often an id is repeated; an id of no package adds nothing.
C16_GetInDiscoveryOrder ==
    (ret # NoValue /\ ret.op = "get") =>
        /\ ret.result.tag = "Ok"
        /\ LET r == ret.result.val
               wanted == {k \in 1..Len(packages) :
                             packages[k].package_id \in Range(ret.ids)}
           IN  /\ Len(r) = Cardinality(wanted)
               /\ \E pos \in [1..Len(r) -> wanted] :
                     /\ \A i \in 1..Len(r) : r[i] = packages[pos[i]]
                     /\ \A i \in 1..Len(r) : \A j \in (i + 1)..Len(r) : pos[i] < pos[j]

\* get was given the ids of the second and then the first package and
\* returned the first and then the second.
C16_Witness ==
    /\ ret # NoValue /\ ret.op = "get"
    /\ Len(ret.ids) = 2 /\ Len(packages) = 2
    /\ ret.ids[1] = packages[2].package_id
    /\ ret.ids[2] = packages[1].package_id
    /\ ret.result = Ok(packages)

\* get was given one id twice and returned one package.
C16_WitnessRepeated ==
    /\ ret # NoValue /\ ret.op = "get"
    /\ Len(ret.ids) = 2 /\ ret.ids[1] = ret.ids[2]
    /\ Len(ret.result.val) = 1

\* C19: a source that is not updated holds no package; the updated flag
\* never goes back to false; the package list changes only in the step of a
\* successful update that sets the flag; a successful update sets the flag,
\* and a failing update leaves the flag false and the package list as it was.
C19_UpdatedStateMachine ==
    /\ [](~updated => packages = <<>>)
    /\ [][/\ updated => updated'
          /\ packages' # packages =>
                /\ ~updated /\ updated'
                /\ ret'.op = "update" /\ ret'.result.tag = "Ok"
          /\ (ret' # ret /\ ret'.op = "update") =>
                IF ret'.result.tag = "Ok" THEN updated'
                ELSE ~updated /\ ~updated' /\ packages' = packages]_vars

\* An update failed on a disk that holds packages, and the source is not
\* updated.
C19_Witness ==
    /\ ret # NoValue /\ ret.op = "update" /\ ret.result.tag = "Err"
    /\ ~updated /\ packages = <<>>
    /\ Len(Discover(world)) = 2

\* C20: a step of query, get, download, list_files, fingerprint,
\* get_root_package or read_packages leaves the updated flag and the package
\* list as they were; download returns Ok(()); and read_packages that reads
\* the packages from the disk leaves the package list empty.
C20_OnlyUpdateChangesState ==
    /\ [][(ret' # ret /\ ret'.op # "update") =>
              (updated' = updated /\ packages' = packages)]_vars
    /\ []((ret # NoValue /\ ret.op = "download") => ret.result = [tag |-> "Ok", val |-> <<>>])
    /\ []((ret # NoValue /\ ret.op = "read_packages" /\ ret.ran) =>
              (~updated /\ packages = <<>>))

\* read_packages returned two packages on a source that is not updated.
C20_Witness ==
    /\ ret # NoValue /\ ret.op = "read_packages" /\ ret.ran
    /\ ret.result.tag = "Ok" /\ Len(ret.result.val) = 2
    /\ ~updated /\ packages = <<>>

\* C21: the list list_files returns holds no path twice.
C21_NoPathTwice ==
    ListOk =>
        \A i \in 1..Len(ret.result.val) : \A j \in (i + 1)..Len(ret.result.val) :
            ret.result.val[i] # ret.result.val[j]

====
